---------------------------- MODULE Spec2Model ----------------------------
(***************************************************************************)
(* Benchmark threshold gates of wesichain:                                 *)
(*   tools/bench/evaluate_thresholds.py        (absolute-threshold gate)   *)
(*   tools/bench/evaluate_agent_thresholds.py  (regression-percentage gate)*)
(*                                                                         *)
(* A Python str is a sequence of symbols.  The structural characters the   *)
(* code looks at (space, tab, '-', ':', '#', quotes, brackets, digits) are *)
(* symbols of their own; a run of ordinary letters such as query_p50 is    *)
(* one symbol, so the identifier query_p50 is the string <<"query_p50">>.  *)
(* A Python dict is a function whose domain is its key set.  An optional   *)
(* value (None or a value) is a sequence of length 0 or 1.                 *)
(*                                                                         *)
(* Floats are held in fixed point, in hundredths: 3.98 ms is 398.  The     *)
(* inputs are chosen on that grid, so that the products and quotients the  *)
(* code computes are exact.                                                *)
(***************************************************************************)
EXTENDS Integers, Sequences, FiniteSets, TLC

VARIABLES
    \* one run of main()
    flavor,         \* "absolute" | "agent" | "none": which script runs
    args,           \* the files the command line names, as their contents
    clock,          \* the system date, read by dt.date.today()
    pc,             \* position of main()
    thresholds,     \* result of load_thresholds
    sample_values,  \* values_ms of the sample reduction
    metrics,        \* result of build_metrics / load_metrics
    waivers,        \* result of load_active_waivers
    checks,         \* evaluate: checks (absolute), regressions (agent)
    cursor,         \* evaluate: number of per-metric lines printed
    suppressed,     \* evaluate: suppressed
    out,            \* lines printed to standard output
    err,            \* the exception in flight or caught
    rc,             \* the exit code, <<>> while main() is running
    \* one call of _parse_waivers_yaml, line by line
    lines,          \* the document
    pos,            \* index of the next line
    pst,            \* locals of the parser and its outcome
    \* one call of percentile(values, p)
    p_script,       \* the script whose percentile is called, "none" for no call
    p_values,       \* the argument values
    p_rank,         \* the argument p, in percent
    p_result,       \* <<the value returned>>, <<>> when the call raised
    p_pc            \* "idle" | "call" | "returned"

vars == << flavor, args, clock, pc, thresholds, sample_values, metrics, waivers,
           checks, cursor, suppressed, out, err, rc, lines, pos, pst,
           p_script, p_values, p_rank, p_result, p_pc >>

runVars == << flavor, args, clock, pc, thresholds, sample_values, metrics, waivers,
              checks, cursor, suppressed, out, err, rc >>

parseVars == << lines, pos, pst >>

callVars == << p_script, p_values, p_rank, p_result, p_pc >>

-----------------------------------------------------------------------------
(* Strings *)

SP == " "
TAB == "\t"
DASH == "-"
COLON == ":"
HASH == "#"
SQ == "'"
DQ == "\""

\* str.strip() with no argument removes whitespace
Whitespace == {SP, TAB}

EmptyDict == [k \in {} |-> <<>>]

DictPut(d, k, v) == [y \in (DOMAIN d) \cup {k} |-> IF y = k THEN v ELSE d[y]]

\* dict.get(k) with the default None
DictGet(d, k) == IF k \in DOMAIN d THEN <<d[k]>> ELSE <<>>

SetMin(S) == CHOOSE m \in S : \A n \in S : m <= n

SetMax(S) == CHOOSE m \in S : \A n \in S : n <= m

LStripSet(s, cs) ==
    LET keep == {i \in 1..Len(s) : s[i] \notin cs}
    IN  IF keep = {} THEN <<>> ELSE SubSeq(s, SetMin(keep), Len(s))

RStripSet(s, cs) ==
    LET keep == {i \in 1..Len(s) : s[i] \notin cs}
    IN  IF keep = {} THEN <<>> ELSE SubSeq(s, 1, SetMax(keep))

Strip(s) == RStripSet(LStripSet(s, Whitespace), Whitespace)

LStrip(s) == LStripSet(s, Whitespace)

StartsWith(s, p) == Len(s) >= Len(p) /\ SubSeq(s, 1, Len(p)) = p

Contains(s, c) == \E i \in 1..Len(s) : s[i] = c

\* s.split(c, 1) for a string that contains c
SplitFirst(s, c) ==
    LET i == SetMin({j \in 1..Len(s) : s[j] = c})
    IN  << SubSeq(s, 1, i - 1), SubSeq(s, i + 1, Len(s)) >>

-----------------------------------------------------------------------------
(* Exceptions: the type and the parts of the message *)

NoErr == [kind |-> "none", idx |-> 0, subject |-> <<>>, list |-> <<>>]

Raise(kind, idx, subject, list) ==
    [kind |-> kind, idx |-> idx, subject |-> subject, list |-> list]

-----------------------------------------------------------------------------
(* _parse_waivers_yaml *)

ParseScalar(value) ==
    LET text == Strip(value)
    IN  IF text = <<>> THEN <<>>
        ELSE IF Len(text) >= 2 /\ text[1] = text[Len(text)] /\ text[1] \in {DQ, SQ}
             THEN SubSeq(text, 2, Len(text) - 1)
             ELSE text

RootLine == <<"waivers", COLON>>

EmptyRootLine == <<"waivers", COLON, SP, "[", "]">>

\* the locals before the first line; status is "run", "return" or "raise"
ParseStart ==
    [in_waivers |-> FALSE, current |-> <<>>, waivers |-> <<>>,
     status |-> "run", result |-> <<>>, error |-> NoErr]

ParseRaise(st, kind, raw_line) ==
    [st EXCEPT !.status = "raise", !.error = Raise(kind, 0, raw_line, <<>>)]

\* a line 'key: value' stored into the current record
StoreField(current, text) ==
    LET kv == SplitFirst(text, COLON)
    IN  DictPut(current, Strip(kv[1]), ParseScalar(kv[2]))

\* mutant of IndentTooSmall: one column of indentation is enough
IndentBelowOne(indent) == indent < 1

\* if indent < 2
IndentTooSmall(indent) == indent < 2

\* one iteration of the loop over lines
ParseStep(st, raw_line) ==
    LET line == Strip(raw_line)
        indent == Len(raw_line) - Len(LStripSet(raw_line, {SP}))
    IN  IF line = <<>> \/ StartsWith(LStrip(raw_line), <<HASH>>)
        THEN st
        ELSE IF ~st.in_waivers
        THEN IF line = RootLine
             THEN [st EXCEPT !.in_waivers = TRUE]
             ELSE IF line = EmptyRootLine
             THEN [st EXCEPT !.status = "return", !.result = <<>>]
             ELSE ParseRaise(st, "expected 'waivers:' root key", <<>>)
        ELSE IF StartsWith(line, <<DASH, SP>>)
        THEN LET flushed == IF st.current # <<>>
                            THEN Append(st.waivers, st.current[1])
                            ELSE st.waivers
                 rest == Strip(SubSeq(line, 3, Len(line)))
             IN  IF rest # <<>>
                 THEN IF ~Contains(rest, COLON)
                      THEN ParseRaise([st EXCEPT !.waivers = flushed,
                                                 !.current = <<EmptyDict>>],
                                      "invalid waiver entry line", raw_line)
                      ELSE [st EXCEPT !.waivers = flushed,
                                      !.current = <<StoreField(EmptyDict, rest)>>]
                 ELSE [st EXCEPT !.waivers = flushed, !.current = <<EmptyDict>>]
        ELSE IF st.current = <<>>
        THEN ParseRaise(st, "field without list item", <<>>)
        ELSE IF IndentTooSmall(indent)
        THEN ParseRaise(st, "invalid WAIVERS.yml indentation", raw_line)
        ELSE IF ~Contains(line, COLON)
        THEN ParseRaise(st, "invalid waiver field", raw_line)
        ELSE [st EXCEPT !.current = <<StoreField(st.current[1], line)>>]

\* mutant of ParseFinish: the record still open is not appended
ParseFinishDropsOpen(st) ==
    [st EXCEPT !.status = "return", !.result = st.waivers]

\* after the loop: the open record is appended and the list returned
ParseFinish(st) ==
    [st EXCEPT !.status = "return",
               !.result = IF st.current # <<>>
                          THEN Append(st.waivers, st.current[1])
                          ELSE st.waivers]

RECURSIVE ParseFrom(_, _, _)
ParseFrom(st, doc, i) ==
    IF st.status # "run" THEN st
    ELSE IF i > Len(doc) THEN ParseFinish(st)
    ELSE ParseFrom(ParseStep(st, doc[i]), doc, i + 1)

\* the whole call: status "return" with result, or "raise" with error
ParseWaiversYaml(doc) == ParseFrom(ParseStart, doc, 1)

-----------------------------------------------------------------------------
(* Identifiers, and the order sorted() puts them in *)

Id(name) == <<name>>

\* every identifier the two scripts sort, in code point order
Collation ==
    << "baseline_crash_rate", "baseline_error_rate", "baseline_p50_ms",
       "baseline_p95_ms", "baseline_peak_memory_mb", "crash_rate_baseline",
       "crash_rate_current", "crash_rate_regression_block_pct", "error_rate",
       "error_rate_baseline", "error_rate_current",
       "error_rate_regression_block_pct", "expiry", "extra_metric",
       "index_throughput", "issue", "metric", "owner", "p50_ms_baseline",
       "p50_ms_current", "p50_regression_review_pct", "p95_ms_baseline",
       "p95_ms_current", "p95_regression_block_pct", "peak_memory",
       "peak_memory_mb_baseline", "peak_memory_mb_current",
       "peak_memory_regression_block_pct", "query_p50", "query_p95",
       "query_p99", "reason" >>

\* sorted(S) for a set of identifiers
SortedIds(S) ==
    LET InS(name) == Id(name) \in S
        picked == SelectSeq(Collation, InS)
    IN  [i \in 1..Len(picked) |-> Id(picked[i])]

SeqToSet(s) == {s[i] : i \in 1..Len(s)}

-----------------------------------------------------------------------------
(* datetime.date *)

Digits == <<"0", "1", "2", "3", "4", "5", "6", "7", "8", "9">>

IsDigit(c) == \E i \in 1..10 : Digits[i] = c

DigitVal(c) == (CHOOSE i \in 1..10 : Digits[i] = c) - 1

RECURSIVE Number(_)
Number(s) ==
    IF s = <<>> THEN 0
    ELSE 10 * Number(SubSeq(s, 1, Len(s) - 1)) + DigitVal(s[Len(s)])

IsLeap(y) == (y % 4 = 0 /\ y % 100 # 0) \/ y % 400 = 0

DaysInMonth(y, m) ==
    IF m = 2 THEN (IF IsLeap(y) THEN 29 ELSE 28)
    ELSE IF m \in {4, 6, 9, 11} THEN 30 ELSE 31

ValidDate(y, m, d) == y >= 1 /\ m \in 1..12 /\ d \in 1..DaysInMonth(y, m)

\* date.fromisoformat: <<date>>, or <<>> when it raises ValueError.  The
\* forms YYYY-MM-DD and YYYYMMDD are read; the ISO week forms do not occur
\* in the documents drawn here.
FromIsoFormat(s) ==
    LET AllDigits(t) == \A i \in 1..Len(t) : IsDigit(t[i])
        extended == /\ Len(s) = 10 /\ s[5] = DASH /\ s[8] = DASH
                    /\ AllDigits(SubSeq(s, 1, 4) \o SubSeq(s, 6, 7) \o SubSeq(s, 9, 10))
        basic == Len(s) = 8 /\ AllDigits(s)
        y == Number(SubSeq(s, 1, 4))
        m == IF extended THEN Number(SubSeq(s, 6, 7)) ELSE Number(SubSeq(s, 5, 6))
        d == IF extended THEN Number(SubSeq(s, 9, 10)) ELSE Number(SubSeq(s, 7, 8))
    IN  IF (extended \/ basic) /\ ValidDate(y, m, d) THEN << <<y, m, d>> >> ELSE <<>>

\* a < b on dates
DateBefore(a, b) ==
    \/ a[1] < b[1]
    \/ a[1] = b[1] /\ a[2] < b[2]
    \/ a[1] = b[1] /\ a[2] = b[2] /\ a[3] < b[3]

RECURSIVE Pad(_, _)
Pad(n, width) ==
    IF width = 0 THEN <<>>
    ELSE Append(Pad(n \div 10, width - 1), Digits[(n % 10) + 1])

\* date.isoformat()
IsoFormat(date) == Pad(date[1], 4) \o <<DASH>> \o Pad(date[2], 2) \o <<DASH>> \o Pad(date[3], 2)

-----------------------------------------------------------------------------
(* Absolute-threshold gate: evaluate_thresholds.py *)

\* the keys in the order evaluate() reads and prints them
AbsKeys ==
    << Id("query_p50"), Id("query_p95"), Id("query_p99"),
       Id("index_throughput"), Id("peak_memory"), Id("error_rate") >>

AbsRequired == SeqToSet(AbsKeys)

\* mutant of ThresholdValues: every key of the section is returned
WholeSection(section) == section

\* the dict load_thresholds returns: the required keys only
ThresholdValues(section) == [k \in AbsRequired |-> section[k]]

\* load_thresholds on the parsed TOML document: [ok, value, error]
AbsLoadThresholdsResult(file) ==
    IF file = <<>>
    THEN [ok |-> FALSE, value |-> EmptyDict,
          error |-> Raise("FileNotFoundError", 0, <<>>, <<>>)]
    ELSE LET config == file[1]
             section == IF Id("qdrant") \in DOMAIN config
                        THEN config[Id("qdrant")] ELSE EmptyDict
             missing == SortedIds(AbsRequired \ DOMAIN section)
         IN  IF missing # <<>>
             THEN [ok |-> FALSE, value |-> EmptyDict,
                   error |-> Raise("missing threshold keys", 0, <<>>, missing)]
             ELSE [ok |-> TRUE, value |-> ThresholdValues(section), error |-> NoErr]

RequiredFields ==
    {Id("owner"), Id("reason"), Id("expiry"), Id("issue"), Id("metric")}

\* not waiver.get(field): the field is absent or the empty string
FieldMissing(waiver, field) == DictGet(waiver, field) \in {<<>>, << <<>> >>}

\* mutant of Expired: <= where the code has <
ExpiredOrToday(expiry, today) == ~DateBefore(today, expiry)

\* if expiry < today
Expired(expiry, today) == DateBefore(expiry, today)

\* mutant of Activate: the first record of a metric is kept
ActivateFirst(active, metric, waiver) ==
    IF metric \in DOMAIN active THEN active ELSE DictPut(active, metric, waiver)

\* active[metric] = waiver
Activate(active, metric, waiver) == DictPut(active, metric, waiver)

\* the loop of load_active_waivers from record idx on: [ok, value, error]
RECURSIVE ValidateFrom(_, _, _, _, _)
ValidateFrom(records, idx, active, allowed_metrics, today) ==
    IF idx > Len(records)
    THEN [ok |-> TRUE, value |-> active, error |-> NoErr]
    ELSE LET waiver == records[idx]
             missing == SortedIds({f \in RequiredFields : FieldMissing(waiver, f)})
             metric == waiver[Id("metric")]
             expiry == FromIsoFormat(waiver[Id("expiry")])
             Fail(e) == [ok |-> FALSE, value |-> EmptyDict, error |-> e]
         IN  IF missing # <<>>
             THEN Fail(Raise("missing required fields", idx, <<>>, missing))
             ELSE IF metric \notin allowed_metrics
             THEN Fail(Raise("unknown metric", idx, metric, SortedIds(allowed_metrics)))
             ELSE IF expiry = <<>>
             THEN Fail(Raise("invalid expiry", idx, waiver[Id("expiry")], <<>>))
             ELSE IF Expired(expiry[1], today)
             THEN Fail(Raise("expired", idx, metric, <<IsoFormat(expiry[1])>>))
             ELSE ValidateFrom(records, idx + 1, Activate(active, metric, waiver),
                               allowed_metrics, today)

\* load_active_waivers(path, allowed_metrics), today read from the clock
LoadActiveWaivers(path, allowed_metrics, today) ==
    IF path = <<>>
    THEN [ok |-> TRUE, value |-> EmptyDict, error |-> NoErr]
    ELSE LET parsed == ParseWaiversYaml(path[1])
         IN  IF parsed.status = "raise"
             THEN [ok |-> FALSE, value |-> EmptyDict, error |-> parsed.error]
             ELSE ValidateFrom(parsed.result, 1, EmptyDict, allowed_metrics, today)

-----------------------------------------------------------------------------
(* Sample reduction and percentiles *)

NS_PER_MS == 1000000

\* str(path) order of the sample files' paths, in code point order
PathCollation == << "bench_a", "bench_b", "bench_c", "bench_d" >>

PathRank(path) == CHOOSE i \in 1..Len(PathCollation) : Id(PathCollation[i]) = path

\* mutant of KeyGreater: ties go to the smaller path
KeyGreaterSmallerPath(f, g) ==
    \/ f.mtime > g.mtime
    \/ f.mtime = g.mtime /\ PathRank(f.path) < PathRank(g.path)

\* (f.mtime, str(f.path)) > (g.mtime, str(g.path))
KeyGreater(f, g) ==
    \/ f.mtime > g.mtime
    \/ f.mtime = g.mtime /\ PathRank(f.path) > PathRank(g.path)

\* max(candidates, key=...) over files of distinct paths
MaxCandidate(candidates) ==
    CHOOSE i \in 1..Len(candidates) :
        \A j \in 1..Len(candidates) : j # i => KeyGreater(candidates[i], candidates[j])

\* isinstance(iters, list) and isinstance(times, list) and equal lengths
SampleFormatOk(file) ==
    /\ file.iters # <<>>
    /\ file.times # <<>>
    /\ Len(file.iters[1]) = Len(file.times[1])

\* the loop over zip(iters, times): per-call milliseconds, in hundredths
RECURSIVE PerCallMs(_, _)
PerCallMs(iters, times) ==
    IF iters = <<>> THEN <<>>
    ELSE LET rest == PerCallMs(Tail(iters), Tail(times))
         IN  IF Head(iters) = 0 THEN rest
             ELSE << ((Head(times) \div Head(iters)) * 100) \div NS_PER_MS >> \o rest

\* load_sample_times_ms: [ok, value, error]
LoadSampleTimesMs(candidates) ==
    LET Fail(e) == [ok |-> FALSE, value |-> <<>>, error |-> e]
    IN  IF candidates = <<>>
        THEN Fail(Raise("FileNotFoundError", 0, <<>>, <<>>))
        ELSE LET sample == candidates[MaxCandidate(candidates)]
             IN  IF ~SampleFormatOk(sample)
                 THEN Fail(Raise("invalid sample format", 0, sample.path, <<>>))
                 ELSE LET values_ms == PerCallMs(sample.iters[1], sample.times[1])
                      IN  IF values_ms = <<>>
                          THEN Fail(Raise("no benchmark values", 0, sample.path, <<>>))
                          ELSE [ok |-> TRUE, value |-> values_ms, error |-> NoErr]

RECURSIVE Insert(_, _)
Insert(x, sorted) ==
    IF sorted = <<>> THEN <<x>>
    ELSE IF x <= Head(sorted) THEN <<x>> \o sorted
    ELSE <<Head(sorted)>> \o Insert(x, Tail(sorted))

RECURSIVE Sorted(_)
Sorted(values) ==
    IF values = <<>> THEN <<>> ELSE Insert(Head(values), Sorted(Tail(values)))

\* mutant of Percentile: the values are taken in the order given
PercentileUnsorted(values, pct) ==
    IF values = <<>> THEN <<>>
    ELSE LET idx100 == (Len(values) - 1) * pct
             lo == idx100 \div 100
             hi == IF idx100 % 100 = 0 THEN lo ELSE lo + 1
             weight100 == idx100 - lo * 100
         IN  IF Len(values) = 1 THEN <<values[1]>>
             ELSE IF lo = hi THEN <<values[lo + 1]>>
             ELSE << values[lo + 1] + ((values[hi + 1] - values[lo + 1]) * weight100) \div 100 >>

\* percentile(values, p) for p = pct / 100: <<result>>, or <<>> when it raises.
\* idx = (n - 1) * p is held as idx100 = (n - 1) * pct; Python indexes from 0.
Percentile(values, pct) ==
    IF values = <<>> THEN <<>>
    ELSE LET ordered == Sorted(values)
             idx100 == (Len(ordered) - 1) * pct
             lo == idx100 \div 100
             hi == IF idx100 % 100 = 0 THEN lo ELSE lo + 1
             lo_value == ordered[lo + 1]
             hi_value == ordered[hi + 1]
             weight100 == idx100 - lo * 100
         IN  IF Len(ordered) = 1 THEN <<ordered[1]>>
             ELSE IF lo = hi THEN <<ordered[lo + 1]>>
             ELSE << lo_value + ((hi_value - lo_value) * weight100) \div 100 >>

\* percentile of the agent script: sorts first, then tests for emptiness
AgentPercentile(values, pct) ==
    LET ordered == Sorted(values)
    IN  IF ordered = <<>> THEN <<>>
        ELSE IF Len(ordered) = 1 THEN <<ordered[1]>>
        ELSE LET idx100 == (Len(ordered) - 1) * pct
                 lo == idx100 \div 100
                 hi == IF idx100 % 100 = 0 THEN lo ELSE lo + 1
                 lo_value == ordered[lo + 1]
                 hi_value == ordered[hi + 1]
                 weight100 == idx100 - lo * 100
             IN  IF lo = hi THEN <<ordered[lo + 1]>>
                 ELSE << lo_value + ((hi_value - lo_value) * weight100) \div 100 >>

KiB == 1024

\* load_peak_memory_gb: the first rss line wins; gigabytes, in hundredths.
\* A line is [kind, value]: kind "rss_bytes", "maxrss_kbytes" or "other".
RECURSIVE LoadPeakMemoryGb(_)
LoadPeakMemoryGb(rss_file) ==
    IF rss_file = <<>>
    THEN [ok |-> FALSE, value |-> 0, error |-> Raise("expected rss_bytes", 0, <<>>, <<>>)]
    ELSE LET line == Head(rss_file)
         IN  IF line.kind = "rss_bytes"
             THEN [ok |-> TRUE, error |-> NoErr,
                   value |-> ((line.value \div (KiB * KiB)) * 100) \div KiB]
             ELSE IF line.kind = "maxrss_kbytes"
             THEN [ok |-> TRUE, error |-> NoErr,
                   value |-> (line.value * 100) \div (KiB * KiB)]
             ELSE LoadPeakMemoryGb(Tail(rss_file))

\* build_metrics: [ok, value, samples, error]
BuildMetrics(a) ==
    IF a.metrics_json # <<>>
    THEN [ok |-> TRUE, value |-> a.metrics_json[1], samples |-> <<>>, error |-> NoErr]
    ELSE LET loaded == LoadSampleTimesMs(a.criterion_root[1])
             sample_values_ms == loaded.value
             p50 == Percentile(sample_values_ms, 50)[1]
             p95 == Percentile(sample_values_ms, 95)[1]
             p99 == Percentile(sample_values_ms, 99)[1]
             throughput == IF p50 > 0
                           THEN (a.dataset_size * 1000 * 100 * 100) \div p50
                           ELSE 0
             memory == LoadPeakMemoryGb(a.rss_file[1])
             Fail(e) == [ok |-> FALSE, value |-> EmptyDict, samples |-> <<>>, error |-> e]
         IN  IF ~loaded.ok THEN Fail(loaded.error)
             ELSE IF ~memory.ok THEN Fail(memory.error)
             ELSE [ok |-> TRUE, samples |-> sample_values_ms, error |-> NoErr,
                   value |-> (Id("query_p50") :> p50) @@ (Id("query_p95") :> p95)
                             @@ (Id("query_p99") :> p99)
                             @@ (Id("index_throughput") :> throughput)
                             @@ (Id("peak_memory") :> memory.value)
                             @@ (Id("error_rate") :> 0)]

\* the comparison evaluate() makes for one key
Check(key, value, threshold) ==
    IF key = Id("index_throughput") THEN value >= threshold ELSE value <= threshold

\* the first key the checks literal reads that metrics lacks (KeyError)
FirstMissingKey(m) ==
    LET absent == {i \in 1..Len(AbsKeys) : AbsKeys[i] \notin DOMAIN m}
    IN  IF absent = {} THEN <<>> ELSE <<AbsKeys[SetMin(absent)]>>

Checks(m, t) == [k \in AbsRequired |-> Check(k, m[k], t[k])]

\* mutant of Waived: the test of checks[key] is dropped
WaivedAnyHolder(key, c, w) == key \in DOMAIN w

\* waived = not checks[key] and key in waivers
Waived(key, c, w) == ~c[key] /\ key \in DOMAIN w

Status(key, c, w) ==
    IF c[key] THEN "PASS" ELSE IF Waived(key, c, w) THEN "WAIVED" ELSE "FAIL"

\* mutant of AllSatisfied: any() where the code has all()
AllSatisfiedAny(c, w) ==
    \/ \A k \in DOMAIN c : c[k]
    \/ \E k \in DOMAIN c : c[k] \/ k \in DOMAIN w

\* the condition of the final if of evaluate()
AllSatisfied(c, w) ==
    \/ \A k \in DOMAIN c : c[k]
    \/ \A k \in DOMAIN c : c[k] \/ k \in DOMAIN w

\* a printed line
Line(kind, key, value, threshold, status, extra) ==
    [kind |-> kind, key |-> key, value |-> value, threshold |-> threshold,
     status |-> status, extra |-> extra]

-----------------------------------------------------------------------------
(* Regression-percentage gate: evaluate_agent_thresholds.py *)

AgentThresholdKeys ==
    { Id("p50_regression_review_pct"), Id("p95_regression_block_pct"),
      Id("peak_memory_regression_block_pct"), Id("error_rate_regression_block_pct"),
      Id("crash_rate_regression_block_pct"), Id("baseline_p50_ms"),
      Id("baseline_p95_ms"), Id("baseline_peak_memory_mb"),
      Id("baseline_error_rate"), Id("baseline_crash_rate") }

AgentMetricKeys ==
    { Id("p50_ms_baseline"), Id("p50_ms_current"), Id("p95_ms_baseline"),
      Id("p95_ms_current"), Id("peak_memory_mb_baseline"),
      Id("peak_memory_mb_current"), Id("error_rate_baseline"),
      Id("error_rate_current"), Id("crash_rate_baseline"),
      Id("crash_rate_current") }

\* load_thresholds of the agent gate: [ok, value, error]
AgentLoadThresholdsResult(file) ==
    IF file = <<>>
    THEN [ok |-> FALSE, value |-> EmptyDict,
          error |-> Raise("FileNotFoundError", 0, <<>>, <<>>)]
    ELSE LET config == file[1]
             section == IF Id("agent") \in DOMAIN config
                        THEN config[Id("agent")] ELSE EmptyDict
             missing == SortedIds(AgentThresholdKeys \ DOMAIN section)
         IN  IF missing # <<>>
             THEN [ok |-> FALSE, value |-> EmptyDict,
                   error |-> Raise("missing threshold keys", 0, <<>>, missing)]
             ELSE [ok |-> TRUE, value |-> [k \in AgentThresholdKeys |-> section[k]],
                   error |-> NoErr]

\* _extract_sample_ms: <<values>>, or <<>> when the format is invalid
ExtractSampleMs(file) ==
    IF ~(/\ file.iters # <<>>
         /\ file.times # <<>>
         /\ Len(file.iters[1]) = Len(file.times[1]))
    THEN <<>>
    ELSE << PerCallMs(file.iters[1], file.times[1]) >>

\* the loop over samples: values_ms.extend(...) file after file
RECURSIVE ExtendAll(_)
ExtendAll(samples) ==
    IF samples = <<>> THEN <<>>
    ELSE ExtractSampleMs(Head(samples))[1] \o ExtendAll(Tail(samples))

\* load_criterion_latency_metrics: [ok, value (p50, p95), samples, error]
LoadCriterionLatencyMetrics(samples) ==
    LET Fail(e) == [ok |-> FALSE, value |-> <<0, 0>>, samples |-> <<>>, error |-> e]
        bad == {i \in 1..Len(samples) : ExtractSampleMs(samples[i]) = <<>>}
        values_ms == ExtendAll(samples)
    IN  IF samples = <<>>
        THEN Fail(Raise("FileNotFoundError", 0, <<>>, <<>>))
        ELSE IF bad # {}
        THEN Fail(Raise("invalid criterion sample format", 0,
                        samples[SetMin(bad)].path, <<>>))
        ELSE IF values_ms = <<>>
        THEN Fail(Raise("no benchmark samples", 0, <<>>, <<>>))
        ELSE [ok |-> TRUE, samples |-> values_ms, error |-> NoErr,
              value |-> << AgentPercentile(values_ms, 50)[1],
                            AgentPercentile(values_ms, 95)[1] >>]

\* load_peak_memory_mb: megabytes, in hundredths
RECURSIVE LoadPeakMemoryMb(_)
LoadPeakMemoryMb(rss_file) ==
    IF rss_file = <<>>
    THEN [ok |-> FALSE, value |-> 0, error |-> Raise("expected rss_bytes", 0, <<>>, <<>>)]
    ELSE LET line == Head(rss_file)
         IN  IF line.kind = "rss_bytes"
             THEN [ok |-> TRUE, error |-> NoErr,
                   value |-> (line.value \div (KiB * KiB)) * 100]
             ELSE IF line.kind = "maxrss_kbytes"
             THEN [ok |-> TRUE, error |-> NoErr,
                   value |-> (line.value * 100) \div KiB]
             ELSE LoadPeakMemoryMb(Tail(rss_file))

\* load_metrics: [ok, value, samples, error]
LoadMetrics(a, t) ==
    LET Fail(e) == [ok |-> FALSE, value |-> EmptyDict, samples |-> <<>>, error |-> e]
    IN  IF a.metrics_json # <<>>
        THEN LET payload == a.metrics_json[1]
                 missing == SortedIds(AgentMetricKeys \ DOMAIN payload)
             IN  IF missing # <<>>
                 THEN Fail(Raise("metrics JSON missing keys", 0, <<>>, missing))
                 ELSE [ok |-> TRUE, samples |-> <<>>, error |-> NoErr,
                       value |-> [k \in AgentMetricKeys |-> payload[k]]]
        ELSE IF a.criterion_root = <<>> \/ a.rss_file = <<>>
        THEN Fail(Raise("--criterion-root and --rss-file are required", 0, <<>>, <<>>))
        ELSE LET latency == LoadCriterionLatencyMetrics(a.criterion_root[1])
                 memory == LoadPeakMemoryMb(a.rss_file[1])
             IN  IF ~latency.ok THEN Fail(latency.error)
                 ELSE IF ~memory.ok THEN Fail(memory.error)
                 ELSE [ok |-> TRUE, samples |-> latency.samples, error |-> NoErr,
                       value |->
                           (Id("p50_ms_baseline") :> t[Id("baseline_p50_ms")])
                        @@ (Id("p50_ms_current") :> latency.value[1])
                        @@ (Id("p95_ms_baseline") :> t[Id("baseline_p95_ms")])
                        @@ (Id("p95_ms_current") :> latency.value[2])
                        @@ (Id("peak_memory_mb_baseline") :> t[Id("baseline_peak_memory_mb")])
                        @@ (Id("peak_memory_mb_current") :> memory.value)
                        @@ (Id("error_rate_baseline") :> t[Id("baseline_error_rate")])
                        @@ (Id("error_rate_current") :> 0)
                        @@ (Id("crash_rate_baseline") :> t[Id("baseline_crash_rate")])
                        @@ (Id("crash_rate_current") :> 0)]

\* regression_pct, in hundredths of a percent
RegressionPct(current, baseline) ==
    IF baseline = 0
    THEN IF current = 0 THEN 0 ELSE 100 * 100
    ELSE ((current - baseline) * 100 * 100) \div baseline

\* the five regressions in the order evaluate() prints them:
\* <<label, current key, baseline key, threshold key>>
AgentRows ==
    << << "p50 latency", Id("p50_ms_current"), Id("p50_ms_baseline"),
          Id("p50_regression_review_pct") >>,
       << "p95 latency", Id("p95_ms_current"), Id("p95_ms_baseline"),
          Id("p95_regression_block_pct") >>,
       << "peak memory", Id("peak_memory_mb_current"), Id("peak_memory_mb_baseline"),
          Id("peak_memory_regression_block_pct") >>,
       << "error rate", Id("error_rate_current"), Id("error_rate_baseline"),
          Id("error_rate_regression_block_pct") >>,
       << "crash rate", Id("crash_rate_current"), Id("crash_rate_baseline"),
          Id("crash_rate_regression_block_pct") >> >>

\* p50_regression .. crash_regression, by row
Regressions(m) ==
    [i \in 1..Len(AgentRows) |-> RegressionPct(m[AgentRows[i][2]], m[AgentRows[i][3]])]

\* the p50 test before the REVIEW line
ReviewExceeded(r, t) == r[1] > t[AgentRows[1][4]]

\* mutant of Blocks: >= where the code has >
BlocksAtThreshold(i, r, t) == r[i] >= t[AgentRows[i][4]]

\* one of the four tests that fill blockers
Blocks(i, r, t) == r[i] > t[AgentRows[i][4]]

\* blockers, in the order they are appended
Blockers(r, t) ==
    LET Hit(i) == Blocks(i, r, t)
        rows == SelectSeq(<<2, 3, 4, 5>>, Hit)
    IN  [j \in 1..Len(rows) |-> AgentRows[rows[j]][1]]

-----------------------------------------------------------------------------
(* main() of evaluate_thresholds.py, step by step *)

Emit(line) == out' = Append(out, line)

\* an exception leaves the try block
Throw(e) == pc' = "except" /\ err' = e

\* thresholds = load_thresholds(Path(args.thresholds))
AbsLoadThresholds ==
    /\ flavor = "absolute" /\ pc = "thresholds"
    /\ LET r == AbsLoadThresholdsResult(args.thresholds)
       IN  IF r.ok
           THEN thresholds' = r.value /\ pc' = "metrics" /\ UNCHANGED err
           ELSE Throw(r.error) /\ UNCHANGED thresholds
    /\ UNCHANGED << flavor, args, clock, sample_values, metrics, waivers, checks,
                    cursor, suppressed, out, rc, parseVars, callVars >>

\* metrics = build_metrics(args)
AbsBuildMetrics ==
    /\ flavor = "absolute" /\ pc = "metrics"
    /\ LET r == BuildMetrics(args)
       IN  IF r.ok
           THEN /\ metrics' = r.value /\ sample_values' = r.samples
                /\ pc' = "waivers" /\ UNCHANGED err
           ELSE Throw(r.error) /\ UNCHANGED << metrics, sample_values >>
    /\ UNCHANGED << flavor, args, clock, thresholds, waivers, checks, cursor,
                    suppressed, out, rc, parseVars, callVars >>

\* waivers = load_active_waivers(waivers_path, set(thresholds))
AbsLoadActiveWaivers ==
    /\ flavor = "absolute" /\ pc = "waivers"
    /\ LET r == LoadActiveWaivers(args.waivers, DOMAIN thresholds, clock)
       IN  IF r.ok
           THEN waivers' = r.value /\ pc' = "evaluate" /\ UNCHANGED err
           ELSE Throw(r.error) /\ UNCHANGED waivers
    /\ UNCHANGED << flavor, args, clock, thresholds, sample_values, metrics, checks,
                    cursor, suppressed, out, rc, parseVars, callVars >>

\* evaluate(): the checks literal, then the heading
AbsEvaluateStart ==
    /\ flavor = "absolute" /\ pc = "evaluate"
    /\ LET absent == FirstMissingKey(metrics)
       IN  IF absent # <<>>
           THEN Throw(Raise("KeyError", 0, absent[1], <<>>)) /\ UNCHANGED << checks, out >>
           ELSE /\ checks' = Checks(metrics, thresholds)
                /\ Emit(Line("heading", <<>>, 0, 0, "Benchmark threshold evaluation", <<>>))
                /\ pc' = "lines" /\ UNCHANGED err
    /\ UNCHANGED << flavor, args, clock, thresholds, sample_values, metrics, waivers,
                    cursor, suppressed, rc, parseVars, callVars >>

\* evaluate(): one iteration of the loop over the six keys
AbsPrintMetric ==
    /\ flavor = "absolute" /\ pc = "lines"
    /\ LET key == AbsKeys[cursor + 1]
           waived == Waived(key, checks, waivers)
           status == Status(key, checks, waivers)
           waiver == waivers[key]
       IN  IF waived
           THEN /\ suppressed' = Append(suppressed, key)
                /\ Emit(Line("metric", key, metrics[key], thresholds[key], status,
                              << waiver[Id("owner")], waiver[Id("issue")],
                                 waiver[Id("expiry")] >>))
           ELSE /\ UNCHANGED suppressed
                /\ Emit(Line("metric", key, metrics[key], thresholds[key], status, <<>>))
    /\ cursor' = cursor + 1
    /\ pc' = IF cursor + 1 = Len(AbsKeys) THEN "verdict" ELSE "lines"
    /\ UNCHANGED << flavor, args, clock, thresholds, sample_values, metrics, waivers,
                    checks, err, rc, parseVars, callVars >>

\* evaluate(): the final if, and main() returns its result
AbsVerdict ==
    /\ flavor = "absolute" /\ pc = "verdict"
    /\ IF AllSatisfied(checks, waivers)
       THEN /\ out' = (IF suppressed # <<>>
                       THEN Append(out, Line("waived", <<>>, 0, 0,
                                             "Threshold failures waived for metrics",
                                             SortedIds(SeqToSet(suppressed))))
                       ELSE out)
                      \o << Line("verdict", <<>>, 0, 0, "All thresholds satisfied", <<>>) >>
            /\ rc' = <<0>>
       ELSE /\ Emit(Line("verdict", <<>>, 0, 0, "One or more thresholds failed", <<>>))
            /\ rc' = <<1>>
    /\ pc' = "done"
    /\ UNCHANGED << flavor, args, clock, thresholds, sample_values, metrics, waivers,
                    checks, cursor, suppressed, err, parseVars, callVars >>

\* mutant of AbsHandleException: returns 2 without printing the error
AbsHandleExceptionSilent ==
    /\ flavor = "absolute" /\ pc = "except"
    /\ rc' = <<2>>
    /\ pc' = "done"
    /\ UNCHANGED << flavor, args, clock, thresholds, sample_values, metrics, waivers,
                    checks, cursor, suppressed, out, err, parseVars, callVars >>

\* except Exception as exc: print(f"error: {exc}"); return 2
AbsHandleException ==
    /\ flavor = "absolute" /\ pc = "except"
    /\ Emit(Line("error", <<>>, 0, 0, "error", <<err>>))
    /\ rc' = <<2>>
    /\ pc' = "done"
    /\ UNCHANGED << flavor, args, clock, thresholds, sample_values, metrics, waivers,
                    checks, cursor, suppressed, err, parseVars, callVars >>

-----------------------------------------------------------------------------
(* main() of evaluate_agent_thresholds.py, step by step *)

\* thresholds = load_thresholds(Path(args.thresholds))
AgentLoadThresholds ==
    /\ flavor = "agent" /\ pc = "thresholds"
    /\ LET r == AgentLoadThresholdsResult(args.thresholds)
       IN  IF r.ok
           THEN thresholds' = r.value /\ pc' = "metrics" /\ UNCHANGED err
           ELSE Throw(r.error) /\ UNCHANGED thresholds
    /\ UNCHANGED << flavor, args, clock, sample_values, metrics, waivers, checks,
                    cursor, suppressed, out, rc, parseVars, callVars >>

\* metrics = load_metrics(args, thresholds)
AgentLoadMetrics ==
    /\ flavor = "agent" /\ pc = "metrics"
    /\ LET r == LoadMetrics(args, thresholds)
       IN  IF r.ok
           THEN /\ metrics' = r.value /\ sample_values' = r.samples
                /\ pc' = "evaluate" /\ UNCHANGED err
           ELSE Throw(r.error) /\ UNCHANGED << metrics, sample_values >>
    /\ UNCHANGED << flavor, args, clock, thresholds, waivers, checks, cursor,
                    suppressed, out, rc, parseVars, callVars >>

\* evaluate(): the five regressions, then the heading
AgentEvaluateStart ==
    /\ flavor = "agent" /\ pc = "evaluate"
    /\ checks' = Regressions(metrics)
    /\ Emit(Line("heading", <<>>, 0, 0, "Agent benchmark threshold evaluation", <<>>))
    /\ pc' = "lines"
    /\ UNCHANGED << flavor, args, clock, thresholds, sample_values, metrics, waivers,
                    cursor, suppressed, err, rc, parseVars, callVars >>

\* evaluate(): one of the five per-metric prints
AgentPrintMetric ==
    /\ flavor = "agent" /\ pc = "lines"
    /\ LET row == AgentRows[cursor + 1]
       IN  Emit(Line("metric", <<row[1]>>, checks[cursor + 1], thresholds[row[4]],
                      IF cursor = 0 THEN "review>" ELSE "block>", <<>>))
    /\ cursor' = cursor + 1
    /\ pc' = IF cursor + 1 = Len(AgentRows) THEN "verdict" ELSE "lines"
    /\ UNCHANGED << flavor, args, clock, thresholds, sample_values, metrics, waivers,
                    checks, suppressed, err, rc, parseVars, callVars >>

\* evaluate(): the REVIEW line, blockers, BLOCK or PASS, and main() returns
AgentVerdict ==
    /\ flavor = "agent" /\ pc = "verdict"
    /\ LET reviewed == IF ReviewExceeded(checks, thresholds)
                       THEN Append(out, Line("review", <<>>, 0, 0,
                                "REVIEW: p50 regression exceeded advisory threshold", <<>>))
                       ELSE out
           blockers == Blockers(checks, thresholds)
       IN  IF blockers # <<>>
           THEN /\ out' = Append(reviewed, Line("verdict", <<>>, 0, 0, "BLOCK", blockers))
                /\ rc' = <<1>>
           ELSE /\ out' = Append(reviewed, Line("verdict", <<>>, 0, 0, "PASS", <<>>))
                /\ rc' = <<0>>
    /\ pc' = "done"
    /\ UNCHANGED << flavor, args, clock, thresholds, sample_values, metrics, waivers,
                    checks, cursor, suppressed, err, parseVars, callVars >>

\* except Exception as exc: print(f"error: {exc}"); return 2
AgentHandleException ==
    /\ flavor = "agent" /\ pc = "except"
    /\ Emit(Line("error", <<>>, 0, 0, "error", <<err>>))
    /\ rc' = <<2>>
    /\ pc' = "done"
    /\ UNCHANGED << flavor, args, clock, thresholds, sample_values, metrics, waivers,
                    checks, cursor, suppressed, err, parseVars, callVars >>

-----------------------------------------------------------------------------
(* _parse_waivers_yaml, line by line *)

\* one iteration of `for raw_line in lines`
ParseLine ==
    /\ flavor = "none" /\ pst.status = "run" /\ pos <= Len(lines)
    /\ pst' = ParseStep(pst, lines[pos])
    /\ pos' = pos + 1
    /\ UNCHANGED << lines, runVars, callVars >>

\* the statements after the loop
ParseEnd ==
    /\ flavor = "none" /\ pst.status = "run" /\ pos > Len(lines)
    /\ pst' = ParseFinish(pst)
    /\ UNCHANGED << lines, pos, runVars, callVars >>

-----------------------------------------------------------------------------
(* percentile, called on its own *)

\* evaluate_thresholds.percentile(values, p)
PercentileCall ==
    /\ p_script = "evaluate_thresholds" /\ p_pc = "call"
    /\ p_result' = Percentile(p_values, p_rank)
    /\ p_pc' = "returned"
    /\ UNCHANGED << p_script, p_values, p_rank, runVars, parseVars >>

\* evaluate_agent_thresholds.percentile(values, p)
AgentPercentileCall ==
    /\ p_script = "evaluate_agent_thresholds" /\ p_pc = "call"
    /\ p_result' = AgentPercentile(p_values, p_rank)
    /\ p_pc' = "returned"
    /\ UNCHANGED << p_script, p_values, p_rank, runVars, parseVars >>

-----------------------------------------------------------------------------
(* The inputs of a run: bounded sets of files *)

MaxWaivers == 2     \* records in a waiver document
MaxFiles == 2       \* sample files under the criterion root
MaxLines == 3       \* lines of a document given to the parser alone
MaxValues == 4      \* values given to percentile alone

SeqsUpTo(S, n) == UNION {[1..k -> S] : k \in 0..n}

RECURSIVE Flatten(_)
Flatten(ss) == IF ss = <<>> THEN <<>> ELSE Head(ss) \o Flatten(Tail(ss))

Today == <<2026, 11, 3>>

Indent(n) == [i \in 1..n |-> SP]

FieldLine(n, key, text) == Indent(n) \o key \o <<COLON, SP>> \o text

ItemLine(n, key, text) == Indent(n) \o <<DASH, SP>> \o key \o <<COLON, SP>> \o text

\* a record written as a list item: the first pair on the dash line
RenderRecord(pairs) ==
    << ItemLine(2, pairs[1][1], pairs[1][2]) >>
    \o [i \in 1..(Len(pairs) - 1) |-> FieldLine(4, pairs[i + 1][1], pairs[i + 1][2])]

CommentLine == <<HASH, SP, "benchmark", SP, "waivers">>

\* a WAIVERS.yml holding the records, or the empty list
RenderDoc(records) ==
    IF records = <<>>
    THEN << CommentLine, EmptyRootLine >>
    ELSE << CommentLine, RootLine, <<>> >>
         \o Flatten([i \in 1..Len(records) |-> RenderRecord(records[i])])

WaiverPairs(metric, owner, expiry, issue) ==
    << <<Id("metric"), metric>>, <<Id("owner"), owner>>, <<Id("reason"), Id("flaky")>>,
       <<Id("expiry"), expiry>>, <<Id("issue"), issue>> >>

Without(pairs, key) == LET Keep(p) == p[1] # key IN SelectSeq(pairs, Keep)

\* records with something to say to every check of load_active_waivers
WaiverPool ==
    { WaiverPairs(Id("query_p50"), Id("alice"), IsoFormat(Today), Id("WESI_1")),
      WaiverPairs(Id("query_p50"), Id("bob"), IsoFormat(<<2026, 11, 4>>), Id("WESI_2")),
      WaiverPairs(Id("query_p50"), Id("alice"), IsoFormat(<<2026, 11, 2>>), Id("WESI_3")),
      WaiverPairs(Id("query_p95"), Id("carol"),
                  <<DQ>> \o IsoFormat(<<2026, 12, 1>>) \o <<DQ>>, Id("WESI_4")),
      WaiverPairs(Id("extra_metric"), Id("alice"), IsoFormat(Today), Id("WESI_5")),
      WaiverPairs(Id("extra_metric"), Id("alice"), IsoFormat(<<2026, 11, 2>>), Id("WESI_6")),
      Without(WaiverPairs(Id("query_p50"), Id("alice"), IsoFormat(<<2026, 11, 2>>),
                          Id("WESI_7")), Id("owner")),
      WaiverPairs(Id("query_p50"), Id("alice"), Id("soon"), Id("WESI_8")),
      WaiverPairs(Id("query_p50"), Id("alice"), IsoFormat(<<2026, 10, 31>>), Id("WESI_9")),
      Without(WaiverPairs(Id("query_p95"), <<>>, IsoFormat(Today), Id("WESI_10")),
              Id("issue")) }

\* a valid waiver for one metric
ValidWaiver(metric) == WaiverPairs(metric, Id("alice"), IsoFormat(Today), Id("WESI_1"))

\* thresholds.toml, section qdrant, in hundredths
AbsLimits ==
    (Id("query_p50") :> 300) @@ (Id("query_p95") :> 400) @@ (Id("query_p99") :> 400)
    @@ (Id("index_throughput") :> 100000) @@ (Id("peak_memory") :> 150)
    @@ (Id("error_rate") :> 0)

Restrict(d, keys) == [k \in keys |-> d[k]]

AbsConfig == Id("qdrant") :> AbsLimits

AbsConfigExtra == Id("qdrant") :> (AbsLimits @@ (Id("extra_metric") :> 100))

AbsConfigs ==
    { <<>>, <<EmptyDict>>, <<AbsConfig>>, <<AbsConfigExtra>>,
      << Id("qdrant") :> Restrict(AbsLimits, AbsRequired \ {Id("query_p99"), Id("error_rate")}) >>,
      << Id("qdrant") :> Restrict(AbsLimits, AbsRequired \ {Id("peak_memory")}) >> }

\* the value of a metric that just fails its threshold
JustFails(key) == IF key = Id("index_throughput") THEN AbsLimits[key] - 1 ELSE AbsLimits[key] + 1

\* metrics at the threshold or just beyond it, and one well inside
AbsPayloads ==
    { [k \in AbsRequired |-> IF k \in failing THEN JustFails(k) ELSE AbsLimits[k]] :
        failing \in SUBSET AbsRequired }
    \cup { [k \in AbsRequired |-> IF k = Id("index_throughput")
                                  THEN AbsLimits[k] + 100 ELSE AbsLimits[k] - 100] }

AllPass == [k \in AbsRequired |-> AbsLimits[k]]

TwoFail ==
    [k \in AbsRequired |->
        IF k \in {Id("query_p50"), Id("query_p95")} THEN JustFails(k) ELSE AbsLimits[k]]

\* a metrics JSON lacking up to two keys, or with one key too many
PartialPayloads(full, keys) ==
    { Restrict(full, keys \ drop) : drop \in {d \in SUBSET keys : Cardinality(d) <= 2} }
    \cup { full @@ (Id("extra_metric") :> 100) }

SampleContents ==
    { [iters |-> << <<1, 2>> >>, times |-> << <<2000000, 8000000>> >>],
      [iters |-> << <<1, 0, 1>> >>, times |-> << <<3000000, 5, 5000000>> >>],
      [iters |-> << <<0>> >>, times |-> << <<7>> >>],
      [iters |-> <<>>, times |-> << <<1000000>> >>] }

SamplePaths == {Id("bench_a"), Id("bench_b"), Id("bench_c")}

SampleFiles ==
    { [path |-> path, mtime |-> mtime, iters |-> c.iters, times |-> c.times] :
        path \in SamplePaths, mtime \in {1, 2}, c \in SampleContents }

\* what rglob returns: files of distinct paths, in any order
CandidateLists ==
    { fs \in SeqsUpTo(SampleFiles, MaxFiles) :
        \A i, j \in 1..Len(fs) : i # j => fs[i].path # fs[j].path }

DefaultCandidates ==
    << [path |-> Id("bench_a"), mtime |-> 1, iters |-> << <<1, 2>> >>,
        times |-> << <<2000000, 8000000>> >>] >>

DefaultRss ==
    << [kind |-> "other", value |-> 0], [kind |-> "rss_bytes", value |-> 1536 * KiB * KiB],
       [kind |-> "maxrss_kbytes", value |-> 2048 * KiB] >>

RssFiles ==
    { DefaultRss,
      << [kind |-> "maxrss_kbytes", value |-> 1024 * KiB], [kind |-> "rss_bytes", value |-> 0] >>,
      << [kind |-> "other", value |-> 0] >>,
      <<>> }

AbsArgs(config, payload, candidates, rss, doc) ==
    [thresholds |-> config, metrics_json |-> payload, criterion_root |-> <<candidates>>,
     rss_file |-> <<rss>>, waivers |-> doc, dataset_size |-> 3]

\* every metric at or beyond its threshold, against waivers for some of them
AbsGateRuns ==
    { AbsArgs(<<AbsConfig>>, <<payload>>, DefaultCandidates, DefaultRss,
              << RenderDoc(LET Named(k) == k \in waived
                               keys == SelectSeq(AbsKeys, Named)
                           IN  [i \in 1..Len(keys) |-> ValidWaiver(keys[i])]) >>) :
        payload \in AbsPayloads,
        waived \in {w \in SUBSET AbsRequired : Cardinality(w) <= MaxWaivers} }

\* every waiver document of up to MaxWaivers records of the pool
AbsWaiverRuns ==
    { AbsArgs(<<config>>, <<payload>>, DefaultCandidates, DefaultRss, <<RenderDoc(records)>>) :
        config \in {AbsConfig, AbsConfigExtra}, payload \in {AllPass, TwoFail},
        records \in SeqsUpTo(WaiverPool, MaxWaivers) }

\* the other inputs: policy files, partial metrics, no waiver file, malformed documents
AbsLoadRuns ==
    { AbsArgs(config, <<AllPass>>, DefaultCandidates, DefaultRss, <<>>) : config \in AbsConfigs }
    \cup { AbsArgs(<<AbsConfig>>, <<payload>>, DefaultCandidates, DefaultRss, doc) :
            payload \in PartialPayloads(TwoFail, AbsRequired),
            doc \in { <<>>, <<RenderDoc(<<ValidWaiver(Id("query_p50"))>>)>>,
                      << <<RootLine, <<SP, Id("owner")[1], COLON, SP, "alice">> >> >> } }

\* --metrics-json omitted: the metrics come from the sample files
AbsMeasuredRuns ==
    { AbsArgs(<<AbsConfig>>, <<>>, candidates, DefaultRss, <<>>) : candidates \in CandidateLists }
    \cup { AbsArgs(<<AbsConfig>>, <<>>, DefaultCandidates, rss, <<>>) : rss \in RssFiles }

\* agent-thresholds.toml, section agent: percents and baselines, in hundredths
AgentLimits ==
    (Id("p50_regression_review_pct") :> 1000) @@ (Id("p95_regression_block_pct") :> 1000)
    @@ (Id("peak_memory_regression_block_pct") :> 1000)
    @@ (Id("error_rate_regression_block_pct") :> 1000)
    @@ (Id("crash_rate_regression_block_pct") :> 1000)
    @@ (Id("baseline_p50_ms") :> 200) @@ (Id("baseline_p95_ms") :> 400)
    @@ (Id("baseline_peak_memory_mb") :> 500) @@ (Id("baseline_error_rate") :> 0)
    @@ (Id("baseline_crash_rate") :> 0)

AgentConfig == Id("agent") :> AgentLimits

AgentConfigs ==
    { <<>>, <<EmptyDict>>, <<AgentConfig>>,
      << Id("agent") :> Restrict(AgentLimits, AgentThresholdKeys
                                  \ {Id("baseline_p50_ms"), Id("crash_rate_regression_block_pct")}) >> }

\* <<baseline, current>>: regressions of 0, 100, 10 (the threshold) and 20 percent
Pairs == { <<0, 0>>, <<0, 500>>, <<500, 550>>, <<500, 600>> }

\* an improvement, and negative baselines
OddPairs == { <<500, 400>>, <<-500, -600>>, <<-500, -400>> }

AgentPayload(choice) ==
    LET Row(k) == CHOOSE i \in 1..Len(AgentRows) : k \in {AgentRows[i][2], AgentRows[i][3]}
    IN  [k \in AgentMetricKeys |->
            IF k = AgentRows[Row(k)][3] THEN choice[Row(k)][1] ELSE choice[Row(k)][2]]

AgentPayloads ==
    { AgentPayload(choice) : choice \in [1..Len(AgentRows) -> Pairs] }
    \cup { AgentPayload([i \in 1..Len(AgentRows) |-> pair]) : pair \in OddPairs }

AgentArgs(config, payload, candidates, rss) ==
    [thresholds |-> config, metrics_json |-> payload, criterion_root |-> candidates,
     rss_file |-> rss, waivers |-> <<>>, dataset_size |-> 3]

AgentGateRuns ==
    { AgentArgs(<<AgentConfig>>, <<payload>>, <<>>, <<>>) : payload \in AgentPayloads }

AgentLoadRuns ==
    { AgentArgs(config, <<AgentPayload([i \in 1..Len(AgentRows) |-> <<500, 550>>])>>, <<>>, <<>>) :
        config \in AgentConfigs }
    \cup { AgentArgs(<<AgentConfig>>, <<payload>>, <<>>, <<>>) :
            payload \in PartialPayloads(AgentPayload([i \in 1..Len(AgentRows) |-> <<500, 600>>]),
                                        AgentMetricKeys) }

AgentMeasuredRuns ==
    { AgentArgs(<<AgentConfig>>, <<>>, <<candidates>>, <<DefaultRss>>) :
        candidates \in CandidateLists }
    \cup { AgentArgs(<<AgentConfig>>, <<>>, <<DefaultCandidates>>, <<rss>>) : rss \in RssFiles }
    \cup { AgentArgs(<<AgentConfig>>, <<>>, <<>>, <<DefaultRss>>),
           AgentArgs(<<AgentConfig>>, <<>>, <<DefaultCandidates>>, <<>>) }

\* lines for the parser alone: every kind of line the grammar tells apart
ParserLines ==
    { <<>>,
      CommentLine,
      RootLine,
      EmptyRootLine,
      ItemLine(2, Id("metric"), Id("query_p50")),
      ItemLine(0, Id("owner"), Id("erin")),
      <<SP, SP, DASH, SP, "junk">>,
      FieldLine(2, Id("owner"), Id("alice")),
      FieldLine(4, Id("metric"), <<SQ, "query_p95", SQ>>),
      FieldLine(1, Id("owner"), Id("bob")),
      <<TAB, "owner", COLON, SP, "dave">>,
      <<SP, SP, "junk">> }

\* up to MaxLines lines, alone or after a root line
ParserDocs ==
    { pre \o body : pre \in {<<>>, <<RootLine>>}, body \in SeqsUpTo(ParserLines, MaxLines) }

-----------------------------------------------------------------------------
(* Specifications *)

\* nothing loaded, nothing printed
RunFresh ==
    /\ pc = "thresholds"
    /\ thresholds = EmptyDict
    /\ sample_values = <<>>
    /\ metrics = EmptyDict
    /\ waivers = EmptyDict
    /\ checks = EmptyDict
    /\ cursor = 0
    /\ suppressed = <<>>
    /\ out = <<>>
    /\ err = NoErr
    /\ rc = <<>>

RunStart == clock = Today /\ RunFresh

ParserIdle == lines = <<>> /\ pos = 1 /\ pst = ParseStart

PercentileIdle ==
    /\ p_script = "none" /\ p_values = <<>> /\ p_rank = 0
    /\ p_result = <<>> /\ p_pc = "idle"

\* a run of either script on inputs of the bounded sets
Init ==
    /\ \/ flavor = "absolute"
          /\ args \in AbsGateRuns \cup AbsWaiverRuns \cup AbsLoadRuns \cup AbsMeasuredRuns
       \/ flavor = "agent"
          /\ args \in AgentGateRuns \cup AgentLoadRuns \cup AgentMeasuredRuns
    /\ RunStart
    /\ ParserIdle
    /\ PercentileIdle

Next ==
    \/ AbsLoadThresholds
    \/ AbsBuildMetrics
    \/ AbsLoadActiveWaivers
    \/ AbsEvaluateStart
    \/ AbsPrintMetric
    \/ AbsVerdict
    \/ AbsHandleException
    \/ AgentLoadThresholds
    \/ AgentLoadMetrics
    \/ AgentEvaluateStart
    \/ AgentPrintMetric
    \/ AgentVerdict
    \/ AgentHandleException

Spec == Init /\ [][Next]_vars

\* a call of the parser on a document of up to MaxLines lines
InitParse ==
    /\ flavor = "none"
    /\ args = EmptyDict
    /\ RunStart
    /\ lines \in ParserDocs
    /\ pos = 1
    /\ pst = ParseStart
    /\ PercentileIdle

NextParse == ParseLine \/ ParseEnd

SpecParse == InitParse /\ [][NextParse]_vars

\* what dt.date.today() can read on the day of a run
ClockReadings == { Today, <<2026, 11, 4>>, <<2026, 11, 5>> }

\* a run of the absolute gate with a waiver document, on any of these days
InitClock ==
    /\ flavor = "absolute"
    /\ args \in AbsWaiverRuns
    /\ clock \in ClockReadings
    /\ RunFresh
    /\ ParserIdle
    /\ PercentileIdle

NextAbs ==
    \/ AbsLoadThresholds
    \/ AbsBuildMetrics
    \/ AbsLoadActiveWaivers
    \/ AbsEvaluateStart
    \/ AbsPrintMetric
    \/ AbsVerdict
    \/ AbsHandleException

SpecClock == InitClock /\ [][NextAbs]_vars

\* values on the grid of hundredths on which the interpolation is exact
GridValues == {1000, 2000, 3000, 4000}

\* p as a percentage: the ends of [0, 1], the ranks the gates use, and 25, 75
Ranks == {0, 25, 50, 75, 95, 99, 100}

\* a call of percentile of either script on up to MaxValues values
InitPercentile ==
    /\ flavor = "none"
    /\ args = EmptyDict
    /\ RunStart
    /\ ParserIdle
    /\ p_script \in {"evaluate_thresholds", "evaluate_agent_thresholds"}
    /\ p_values \in SeqsUpTo(GridValues, MaxValues)
    /\ p_rank \in Ranks
    /\ p_result = <<>>
    /\ p_pc = "call"

NextPercentile == PercentileCall \/ AgentPercentileCall

SpecPercentile == InitPercentile /\ [][NextPercentile]_vars

-----------------------------------------------------------------------------
(* Properties *)

AbsRun == flavor = "absolute"

AgentRun == flavor = "agent"

SixMetrics ==
    { Id("query_p50"), Id("query_p95"), Id("query_p99"), Id("index_throughput"),
      Id("peak_memory"), Id("error_rate") }

\* the comparison the policy asks of a metric: at most its threshold, or for
\* the throughput at least its threshold
Satisfies(k) ==
    IF k = Id("index_throughput")
    THEN metrics[k] >= thresholds[k]
    ELSE metrics[k] <= thresholds[k]

PassesOrWaived(k) == Satisfies(k) \/ k \in DOMAIN waivers

LastLine == out[Len(out)]

\* C1: the absolute gate returns 0 and prints 'All thresholds satisfied' if and
\* only if each of the six metrics satisfies its comparison or has an entry in
\* the active waivers; otherwise it returns 1 and prints 'One or more
\* thresholds failed', however many other metrics are waived.
C1_VerdictIffAllPassOrWaived ==
    (AbsRun /\ pc = "done" /\ rc # <<2>>) =>
        IF \A k \in SixMetrics : PassesOrWaived(k)
        THEN rc = <<0>> /\ LastLine.status = "All thresholds satisfied"
        ELSE rc = <<1>> /\ LastLine.status = "One or more thresholds failed"

\* two failing metrics are waived and a third fails without a waiver: exit 1
C1_Witness ==
    /\ AbsRun /\ pc = "done" /\ rc = <<1>>
    /\ Len(suppressed) = 2
    /\ \E k \in SixMetrics : ~PassesOrWaived(k)

ExpectedStatus(k) ==
    IF Satisfies(k) THEN "PASS"
    ELSE IF k \in DOMAIN waivers THEN "WAIVED" ELSE "FAIL"

\* C2: the status printed for a metric is PASS when its comparison holds (a
\* value equal to the threshold passes), WAIVED when it fails and the metric
\* has an active waiver, FAIL when it fails and has none; a passing metric is
\* never reported WAIVED nor listed among the waived metrics, even with a
\* waiver active for it.
C2_PrintedStatus ==
    AbsRun =>
        /\ \A i \in 1..Len(out) :
              out[i].kind = "metric" =>
                  /\ out[i].status = ExpectedStatus(out[i].key)
                  /\ out[i].extra # <<>> <=> out[i].status = "WAIVED"
        /\ \A j \in 1..Len(suppressed) : ~Satisfies(suppressed[j])
        /\ \A i \in 1..Len(out) :
              out[i].kind = "waived" =>
                  SeqToSet(out[i].extra) = {k \in SixMetrics : ExpectedStatus(k) = "WAIVED"}

\* a metric equal to its threshold is printed PASS while a waiver for it is
\* active, in a run that also waives a failing metric
C2_Witness ==
    /\ AbsRun /\ pc = "done"
    /\ \E i \in 1..Len(out) :
          /\ out[i].kind = "metric" /\ out[i].status = "PASS"
          /\ out[i].key \in DOMAIN waivers
          /\ out[i].value = out[i].threshold
    /\ \E i \in 1..Len(out) : out[i].kind = "waived"

-----------------------------------------------------------------------------
(* Waiver records, as the policy describes them *)

\* the records the supplied waiver document parses to
WaiverRecords ==
    IF AbsRun /\ args.waivers # <<>>
    THEN LET parsed == ParseWaiversYaml(args.waivers[1])
         IN  IF parsed.status = "return" THEN parsed.result ELSE <<>>
    ELSE <<>>

\* the waiver document was given and parsed
WaiversParsed ==
    /\ AbsRun /\ args.waivers # <<>>
    /\ ParseWaiversYaml(args.waivers[1]).status = "return"

\* thresholds and metrics load successfully
LoadsOk == AbsLoadThresholdsResult(args.thresholds).ok /\ BuildMetrics(args).ok

HasField(r, f) == f \in DOMAIN r /\ r[f] # <<>>

Complete(r) ==
    \A f \in {Id("owner"), Id("reason"), Id("expiry"), Id("issue"), Id("metric")} :
        HasField(r, f)

ExpiryDate(r) == IF HasField(r, Id("expiry")) THEN FromIsoFormat(r[Id("expiry")]) ELSE <<>>

\* the record has an expiry strictly before today's date
ExpiredRecord(r) == ExpiryDate(r) # <<>> /\ DateBefore(ExpiryDate(r)[1], clock)

KnownMetric(r) == HasField(r, Id("metric")) /\ r[Id("metric")] \in SixMetrics

ValidRecord(r) ==
    Complete(r) /\ KnownMetric(r) /\ ExpiryDate(r) # <<>> /\ ~ExpiredRecord(r)

\* record i is the first one that fails validation
FirstInvalid(rs, i) == ~ValidRecord(rs[i]) /\ \A j \in 1..(i - 1) : ValidRecord(rs[j])

\* the error names the record's metric and its expiry date
NamesMetricAndExpiry(e, r) ==
    /\ DictGet(r, Id("metric")) = <<e.subject>>
    /\ e.list = << IsoFormat(ExpiryDate(r)[1]) >>

\* load_active_waivers has returned
WaiversLoaded ==
    /\ AbsRun /\ pc \in {"evaluate", "lines", "verdict", "done"}
    /\ err.kind \in {"none", "KeyError"}

\* a record whose expiry is today's date is not rejected, and is active
TodayIsActive(rs) ==
    \A i \in 1..Len(rs) :
        ExpiryDate(rs[i]) = <<clock>> =>
            /\ ~(err.kind = "expired" /\ err.idx = i)
            /\ WaiversLoaded => rs[i][Id("metric")] \in DOMAIN waivers

\* C3 as stated: when thresholds and metrics load and some parsed record has an
\* expiry strictly before today, main returns 2 whatever the metrics are, and
\* when that record is the first invalid one the error names its metric and
\* its expiry date; a record expiring today is not rejected and is active.
C3_AsStated ==
    (AbsRun /\ pc = "done" /\ LoadsOk /\ WaiversParsed) =>
        LET rs == WaiverRecords
        IN  /\ (\E i \in 1..Len(rs) : ExpiredRecord(rs[i])) => rc = <<2>>
            /\ \A i \in 1..Len(rs) :
                  (ExpiredRecord(rs[i]) /\ FirstInvalid(rs, i)) =>
                      NamesMetricAndExpiry(err, rs[i])
            /\ TodayIsActive(rs)

\* C3 (amended): as stated, the error naming the metric and the expiry date
\* when the expired record is the first invalid one and is otherwise valid:
\* all five required fields non-empty and a metric of the threshold key set.
C3_ExpiredWaiverFailsRun ==
    (AbsRun /\ pc = "done" /\ LoadsOk /\ WaiversParsed) =>
        LET rs == WaiverRecords
        IN  /\ (\E i \in 1..Len(rs) : ExpiredRecord(rs[i])) => rc = <<2>>
            /\ \A i \in 1..Len(rs) :
                  (ExpiredRecord(rs[i]) /\ FirstInvalid(rs, i)
                   /\ Complete(rs[i]) /\ KnownMetric(rs[i])) =>
                      /\ err.kind = "expired" /\ err.idx = i
                      /\ NamesMetricAndExpiry(err, rs[i])
            /\ TodayIsActive(rs)

\* every metric passes, the first record expires today and is accepted, the
\* second expired yesterday: exit 2 with the error of the second record
C3_Witness ==
    /\ AbsRun /\ pc = "done" /\ rc = <<2>>
    /\ args.metrics_json = <<AllPass>>
    /\ err.kind = "expired" /\ err.idx = 2
    /\ ExpiryDate(WaiverRecords[1]) = <<clock>>

-----------------------------------------------------------------------------
(* Exit codes and the order of the output *)

LinesOfKind(kind) == {i \in 1..Len(out) : out[i].kind = kind}

FiveRegressions == {"p50 latency", "p95 latency", "peak memory", "error rate", "crash rate"}

\* one line per metric of the flavor has been printed
OneLinePerMetric ==
    IF AbsRun
    THEN /\ Cardinality(LinesOfKind("metric")) = 6
         /\ {out[i].key : i \in LinesOfKind("metric")} = SixMetrics
    ELSE /\ Cardinality(LinesOfKind("metric")) = 5
         /\ {out[i].key[1] : i \in LinesOfKind("metric")} = FiveRegressions

\* C4: in both flavors a run ends with exit code 0, 1 or 2.  Exit code 2 is
\* returned exactly when a step raised, and then exactly one error line is
\* printed, with no per-metric line and no verdict line before it.  Exit code
\* 0 or 1 is returned only after one line per metric, followed by the final
\* verdict line.  No failure occurs once a per-metric line has been printed.
C4_ExitCodesAndOutputOrder ==
    (AbsRun \/ AgentRun) =>
        /\ rc \in {<<>>, <<0>>, <<1>>, <<2>>}
        /\ pc = "done" <=> rc # <<>>
        /\ rc = <<2>> <=> (pc = "done" /\ err # NoErr)
        /\ rc = <<2>> =>
              /\ Cardinality(LinesOfKind("error")) = 1
              /\ LastLine.kind = "error" /\ LastLine.extra = <<err>>
              /\ LinesOfKind("metric") = {} /\ LinesOfKind("verdict") = {}
        /\ rc \in {<<0>>, <<1>>} =>
              /\ LinesOfKind("error") = {}
              /\ OneLinePerMetric
              /\ LinesOfKind("verdict") = {Len(out)}
        /\ pc = "except" => LinesOfKind("metric") = {}
        /\ err # NoErr => pc \in {"except", "done"}

\* the latest failure there is: evaluate() of the absolute gate raises KeyError
\* on its first statement, and the run ends with exit 2 and the one error line
C4_Witness ==
    /\ AbsRun /\ pc = "done" /\ rc = <<2>>
    /\ err.kind = "KeyError"
    /\ Len(out) = 1

-----------------------------------------------------------------------------
(* The regression-percentage gate *)

\* the regression of current against baseline is strictly greater than limit:
\* 0 for 0 against 0, 100 for anything else against 0, else
\* (current - baseline) / baseline * 100; values and limit in hundredths
RegressionExceeds(current, baseline, limit) ==
    IF baseline = 0
    THEN (IF current = 0 THEN 0 ELSE 100 * 100) > limit
    ELSE IF baseline > 0
    THEN (current - baseline) * 100 * 100 > limit * baseline
    ELSE (current - baseline) * 100 * 100 < limit * baseline

\* the printed value is the regression of current against baseline
IsRegression(value, current, baseline) ==
    IF baseline = 0
    THEN value = (IF current = 0 THEN 0 ELSE 100 * 100)
    ELSE value * baseline = (current - baseline) * 100 * 100

P50Exceeds ==
    RegressionExceeds(metrics[Id("p50_ms_current")], metrics[Id("p50_ms_baseline")],
                      thresholds[Id("p50_regression_review_pct")])

\* the blocking metrics whose regression exceeds its block threshold
Offenders ==
    (IF RegressionExceeds(metrics[Id("p95_ms_current")], metrics[Id("p95_ms_baseline")],
                          thresholds[Id("p95_regression_block_pct")])
     THEN {"p95 latency"} ELSE {})
    \cup
    (IF RegressionExceeds(metrics[Id("peak_memory_mb_current")],
                          metrics[Id("peak_memory_mb_baseline")],
                          thresholds[Id("peak_memory_regression_block_pct")])
     THEN {"peak memory"} ELSE {})
    \cup
    (IF RegressionExceeds(metrics[Id("error_rate_current")], metrics[Id("error_rate_baseline")],
                          thresholds[Id("error_rate_regression_block_pct")])
     THEN {"error rate"} ELSE {})
    \cup
    (IF RegressionExceeds(metrics[Id("crash_rate_current")], metrics[Id("crash_rate_baseline")],
                          thresholds[Id("crash_rate_regression_block_pct")])
     THEN {"crash rate"} ELSE {})

\* C5: the agent gate returns 1 (BLOCK) if and only if the regression of p95
\* latency, peak memory, error rate or crash rate is strictly greater than its
\* block threshold, and the BLOCK line names exactly those metrics; otherwise
\* it returns 0 (PASS).  The p50 regression never changes the exit code: the
\* REVIEW line is printed exactly when it is strictly greater than the review
\* threshold.
C5_RegressionGate ==
    (AgentRun /\ pc = "done" /\ rc # <<2>>) =>
        /\ rc = IF Offenders # {} THEN <<1>> ELSE <<0>>
        /\ LastLine.status = IF Offenders # {} THEN "BLOCK" ELSE "PASS"
        /\ SeqToSet(LastLine.extra) = Offenders
        /\ Len(LastLine.extra) = Cardinality(Offenders)
        /\ LinesOfKind("review") # {} <=> P50Exceeds
        /\ \E i \in LinesOfKind("metric") :
              /\ out[i].key = <<"p50 latency">>
              /\ IsRegression(out[i].value, metrics[Id("p50_ms_current")],
                              metrics[Id("p50_ms_baseline")])

\* the p50 regression exceeds the review threshold, another regression is
\* exactly at its block threshold, nothing blocks: REVIEW is printed, exit 0
C5_Witness ==
    /\ AgentRun /\ pc = "done" /\ rc = <<0>>
    /\ LinesOfKind("review") # {}
    /\ \E i \in LinesOfKind("metric") :
          out[i].key # <<"p50 latency">> /\ out[i].value = out[i].threshold

-----------------------------------------------------------------------------
(* Override mode *)

\* the keys the flavor requires of a metrics JSON
RequiredMetricKeys == IF AbsRun THEN SixMetrics ELSE AgentMetricKeys

\* the keys the supplied metrics JSON lacks
MissingMetricKeys == RequiredMetricKeys \ DOMAIN args.metrics_json[1]

\* the steps other than the metrics succeed
OtherLoadsOk ==
    IF AbsRun
    THEN /\ AbsLoadThresholdsResult(args.thresholds).ok
         /\ LoadActiveWaivers(args.waivers, SixMetrics, clock).ok
    ELSE AgentLoadThresholdsResult(args.thresholds).ok

\* C6: in override mode, in both flavors, a metrics mapping that lacks keys of
\* the flavor's required key set makes the run fail with exit code 2 and an
\* error that lists every missing key.
C6_MissingKeysAllListed ==
    (/\ AbsRun \/ AgentRun
     /\ pc = "done" /\ args.metrics_json # <<>> /\ OtherLoadsOk
     /\ MissingMetricKeys # {}) =>
        /\ rc = <<2>>
        /\ MissingMetricKeys \subseteq (SeqToSet(err.list) \cup {err.subject})

-----------------------------------------------------------------------------
(* Last-wins waivers *)

MetricOf(r) == r[Id("metric")]

\* the last record of the document that names the metric
LastRecordFor(rs, metric) == rs[SetMax({i \in 1..Len(rs) : MetricOf(rs[i]) = metric})]

\* C7: when the document holds several valid unexpired records for one metric,
\* the active set maps the metric to the last of them in document order and no
\* error is raised; a WAIVED line prints the owner, issue and expiry of that
\* last record; the keys of the active set are exactly the metrics the parsed
\* records name.
C7_LastWins ==
    (AbsRun /\ args.waivers # <<>> /\ pc \notin {"thresholds", "metrics", "waivers"}) =>
        LET parsed == ParseWaiversYaml(args.waivers[1])
            rs == parsed.result
        IN  parsed.status = "return" =>
              /\ WaiversLoaded =>
                    /\ DOMAIN waivers = {MetricOf(rs[i]) : i \in 1..Len(rs)}
                    /\ \A metric \in DOMAIN waivers :
                          waivers[metric] = LastRecordFor(rs, metric)
                    /\ \A i \in LinesOfKind("metric") :
                          out[i].status = "WAIVED" =>
                              LET last == LastRecordFor(rs, out[i].key)
                              IN  out[i].extra = << last[Id("owner")], last[Id("issue")],
                                                    last[Id("expiry")] >>
              /\ (LoadsOk /\ \A i \in 1..Len(rs) : ValidRecord(rs[i])) =>
                    err.kind \in {"none", "KeyError"}

\* two valid records for query_p50, of different owners; the metric fails and
\* its WAIVED line shows the owner of the second
C7_Witness ==
    /\ AbsRun /\ pc = "done" /\ WaiversParsed
    /\ LET rs == WaiverRecords
       IN  /\ Len(rs) = 2
           /\ ValidRecord(rs[1]) /\ ValidRecord(rs[2])
           /\ MetricOf(rs[1]) = MetricOf(rs[2])
           /\ rs[1][Id("owner")] # rs[2][Id("owner")]
           /\ \E i \in LinesOfKind("metric") :
                 /\ out[i].status = "WAIVED"
                 /\ out[i].extra[1] = rs[2][Id("owner")]

-----------------------------------------------------------------------------
(* The grammar of the waiver document *)

\* blank lines and full-line comments are ignored
Ignored(l) == Strip(l) = <<>> \/ StartsWith(LStrip(l), <<HASH>>)

\* the lines that count, by position
Significant(doc) == {i \in 1..Len(doc) : ~Ignored(doc[i])}

IsRoot(l) == Strip(l) = <<"waivers", COLON>>

IsEmptyRoot(l) == Strip(l) = <<"waivers", COLON, SP, "[", "]">>

\* columns of indentation: the spaces the line starts with
Columns(l) == Len(l) - Len(LStripSet(l, {SP}))

IsListItem(l) == StartsWith(Strip(l), <<DASH, SP>>)

\* (1) a line other than a root line comes before the root has been seen
ContentBeforeRoot(doc) ==
    /\ Significant(doc) # {}
    /\ LET first == doc[SetMin(Significant(doc))]
       IN  ~IsRoot(first) /\ ~IsEmptyRoot(first)

\* (2) a field line indented by less than 2 columns, or (3) a field line or
\* list-item line without a colon
BadLine(l) ==
    \/ ~IsListItem(l) /\ Columns(l) < 2
    \/ ~Contains(Strip(l), COLON)

\* a bad line after a first line that is a root line of the given kind
BadLineAfter(doc, IsRootOfKind(_)) ==
    /\ Significant(doc) # {}
    /\ LET root == SetMin(Significant(doc))
       IN  /\ IsRootOfKind(doc[root])
           /\ \E i \in Significant(doc) : i > root /\ BadLine(doc[i])

\* the claim as stated; it does not hold for lines after a `waivers: []` root
\* C8 (as stated): a document with (1) a line other than 'waivers:' or
\* 'waivers: []' before the root, (2) a field line with indentation below 2
\* columns or (3) a field line or list-item line without a colon never yields
\* a record list: the parse fails.
C8_AsStated ==
    (pst.status # "run" /\
        (\/ ContentBeforeRoot(lines)
         \/ BadLineAfter(lines, IsRoot)
         \/ BadLineAfter(lines, IsEmptyRoot))) =>
        pst.status = "raise"

\* C8: ignoring blank lines and full-line comments, the parse fails when (1) a
\* line other than 'waivers:' or 'waivers: []' comes before the root, or when,
\* after a 'waivers:' root, there is (2) a field line with indentation below 2
\* columns or (3) a field line or list-item line without a colon.  After a
\* 'waivers: []' root no line is read: the parse returns the empty list
\* whatever follows.
C8_ParserRejects ==
    /\ (pst.status # "run" /\
          (ContentBeforeRoot(lines) \/ BadLineAfter(lines, IsRoot))) =>
          pst.status = "raise"
    /\ (/\ pst.status # "run" /\ Significant(lines) # {}
        /\ IsEmptyRoot(lines[SetMin(Significant(lines))])) =>
          pst.status = "return" /\ pst.result = <<>>

\* a field line of one column after a list item has been rejected for its
\* indentation
C8_Witness ==
    /\ pst.status = "raise"
    /\ pst.error.kind = "invalid WAIVERS.yml indentation"
    /\ \E i \in Significant(lines) : ~IsListItem(lines[i]) /\ Columns(lines[i]) = 1

-----------------------------------------------------------------------------
(* Waivers for unknown metrics *)

\* the keys of the policy section the thresholds were loaded from
SectionKeys == DOMAIN args.thresholds[1][Id("qdrant")]

\* record i is rejected as naming an unknown metric
RejectedAsUnknown(rs, i) == err.kind = "unknown metric" /\ err.idx = i

\* the error names the record's metric and lists the valid names
NamesMetricAndValid(e, r, valid) ==
    /\ e.subject = MetricOf(r)
    /\ SeqToSet(e.list) = valid /\ Len(e.list) = Cardinality(valid)

\* record i is reached by validation and has no other defect
ReachedAndComplete(rs, i) == Complete(rs[i]) /\ \A j \in 1..(i - 1) : ValidRecord(rs[j])

\* waiver loading has run on a parsed document
WaiversValidated ==
    /\ AbsRun /\ pc \notin {"thresholds", "metrics", "waivers"}
    /\ WaiversParsed /\ LoadsOk

\* the claim as stated; it does not hold for a key of the section that is not
\* one of the six required keys
\* C9 (as stated): a waiver record whose metric is not a member of the policy
\* section's key set fails waiver loading with an error that names the metric
\* and lists the valid names; a waiver naming any key present in the loaded
\* policy section is accepted as a known metric.
C9_AsStated ==
    WaiversValidated =>
        LET rs == WaiverRecords
        IN  \A i \in 1..Len(rs) :
                /\ (ReachedAndComplete(rs, i) /\ MetricOf(rs[i]) \notin SectionKeys) =>
                      /\ RejectedAsUnknown(rs, i)
                      /\ NamesMetricAndValid(err, rs[i], SectionKeys)
                /\ (HasField(rs[i], Id("metric")) /\ MetricOf(rs[i]) \in SectionKeys) =>
                      ~RejectedAsUnknown(rs, i)

\* C9: a waiver record whose metric is not one of the six required threshold
\* keys, when validation reaches it and its five fields are filled, fails
\* waiver loading with an error that names the metric and lists the six
\* required keys; a waiver naming one of the six required keys is accepted as
\* a known metric.  A further key of the policy section is not a known metric.
C9_UnknownMetric ==
    WaiversValidated =>
        LET rs == WaiverRecords
        IN  \A i \in 1..Len(rs) :
                /\ (ReachedAndComplete(rs, i) /\ MetricOf(rs[i]) \notin SixMetrics) =>
                      /\ RejectedAsUnknown(rs, i)
                      /\ NamesMetricAndValid(err, rs[i], SixMetrics)
                      /\ pc = "done" => rc = <<2>>
                /\ (HasField(rs[i], Id("metric")) /\ MetricOf(rs[i]) \in SixMetrics) =>
                      ~RejectedAsUnknown(rs, i)

\* a waiver for a key that the policy section holds beyond the six required
\* ones has been rejected as unknown
C9_Witness ==
    /\ WaiversValidated /\ pc = "done" /\ rc = <<2>>
    /\ err.kind = "unknown metric"
    /\ err.subject \in SectionKeys

-----------------------------------------------------------------------------
(* Which sample files are read *)

\* the sample files under the criterion root
Candidates == IF args.criterion_root = <<>> THEN <<>> ELSE args.criterion_root[1]

\* the file with the greatest modification time, ties broken by the greater path
Newest(files) ==
    CHOOSE f \in SeqToSet(files) :
        \A g \in SeqToSet(files) \ {f} :
            \/ g.mtime < f.mtime
            \/ g.mtime = f.mtime /\ PathRank(g.path) < PathRank(f.path)

ValuesOf(f) == PerCallMs(f.iters[1], f.times[1])

\* the values of all the files together
RECURSIVE ValuesOfAll(_)
ValuesOfAll(files) ==
    IF files = <<>> THEN <<>> ELSE ValuesOf(Head(files)) \o ValuesOfAll(Tail(files))

\* the metrics were computed from sample files
Measured == (AbsRun \/ AgentRun) /\ sample_values # <<>>

\* the claim as stated; it does not hold for the agent gate
\* C10 (as stated): in both gate flavors, when several candidate sample files
\* match, the per-call millisecond values are taken from exactly one file, the
\* one with the greatest modification time, ties broken by the greater path.
C10_AsStated ==
    Measured => sample_values = ValuesOf(Newest(Candidates))

\* C10: in the absolute gate, when several candidate sample files match, the
\* per-call millisecond values are taken from exactly one file, the one with
\* the greatest modification time, ties broken by the greater path string, and
\* the percentiles are those of that file alone.  In the agent gate the values
\* of every matching file are put together and the percentiles are taken over
\* all of them.
C10_SampleSelection ==
    /\ (Measured /\ AbsRun) =>
          LET values == ValuesOf(Newest(Candidates))
          IN  /\ sample_values = values
              /\ metrics[Id("query_p50")] = Percentile(values, 50)[1]
              /\ metrics[Id("query_p95")] = Percentile(values, 95)[1]
              /\ metrics[Id("query_p99")] = Percentile(values, 99)[1]
    /\ (Measured /\ AgentRun) =>
          LET values == ValuesOfAll(Candidates)
          IN  /\ Sorted(sample_values) = Sorted(values)
              /\ metrics[Id("p50_ms_current")] = Percentile(values, 50)[1]
              /\ metrics[Id("p95_ms_current")] = Percentile(values, 95)[1]

\* two files of the same modification time and different values: the absolute
\* gate has taken the values of the one with the greater path
C10_Witness ==
    /\ Measured /\ AbsRun /\ pc = "done"
    /\ Len(Candidates) = 2
    /\ Candidates[1].mtime = Candidates[2].mtime
    /\ \E i \in 1..2 :
          /\ PathRank(Candidates[i].path) > PathRank(Candidates[3 - i].path)
          /\ sample_values = ValuesOf(Candidates[i])
          /\ SampleFormatOk(Candidates[3 - i])
          /\ sample_values # ValuesOf(Candidates[3 - i])

-----------------------------------------------------------------------------
(* The date of the expiry comparison *)

\* load_active_waivers has returned or raised
WaiverLoadingOver ==
    /\ AbsRun /\ pc \notin {"thresholds", "metrics", "waivers"}
    /\ args.waivers # <<>> /\ LoadsOk

\* what waiver loading gives for the run's document and metric set on a day
\* when the system clock reads `reading`
ResultWhenClockReads(reading) == LoadActiveWaivers(args.waivers, SixMetrics, reading)

\* the run has the active set, or the error, of the given result
HasResult(r) ==
    IF r.ok
    THEN err.kind \in {"none", "KeyError"} /\ waivers = r.value
    ELSE err = r.error

\* C11: for a fixed waiver document and allowed-metric set, the result of
\* load_active_waivers (active set or error) is the same whatever the ambient
\* system clock reads, so two runs with identical inputs cannot differ in
\* verdict.
C11_SameResultWhateverTheClock ==
    WaiverLoadingOver =>
        /\ \A reading \in ClockReadings : HasResult(ResultWhenClockReads(reading))
        /\ pc = "done" =>
              \A reading \in ClockReadings :
                  ~ResultWhenClockReads(reading).ok => rc = <<2>>

-----------------------------------------------------------------------------
(* Linear-interpolation percentile *)

\* element k (from 0) of the values in ascending order: the value with at
\* most k values below it and more than k values not above it
Ascending(vs, k) ==
    CHOOSE v \in SeqToSet(vs) :
        /\ Cardinality({i \in 1..Len(vs) : vs[i] < v}) <= k
        /\ Cardinality({i \in 1..Len(vs) : vs[i] <= v}) > k

\* idx = (n - 1) * p, in hundredths
RankIndex(vs, pct) == (Len(vs) - 1) * pct

Floor(idx100) == idx100 \div 100

Ceil(idx100) == IF idx100 % 100 = 0 THEN idx100 \div 100 ELSE idx100 \div 100 + 1

\* r is sorted[lo] when lo = hi, else sorted[lo] + (sorted[hi] - sorted[lo]) * (idx - lo)
Interpolates(r, vs, pct) ==
    LET idx100 == RankIndex(vs, pct)
        lo == Floor(idx100)
        hi == Ceil(idx100)
    IN  IF lo = hi
        THEN r = Ascending(vs, lo)
        ELSE r * 100 = Ascending(vs, lo) * 100
                       + (Ascending(vs, hi) - Ascending(vs, lo)) * (idx100 - lo * 100)

\* the same values in every order
Reorderings(vs) == { [i \in 1..Len(vs) |-> vs[f[i]]] : f \in Permutations(1..Len(vs)) }

\* what the called script's percentile gives for other arguments
CalledPercentile(vs, pct) ==
    IF p_script = "evaluate_thresholds" THEN Percentile(vs, pct) ELSE AgentPercentile(vs, pct)

\* C12: percentile(values, p) of both scripts, for every non-empty sequence
\* and p in [0,1]: one element returns that element; otherwise, with the
\* values sorted ascending, idx = (n-1)*p, lo = floor(idx) and hi = ceil(idx),
\* the result is sorted[lo] when lo = hi and the linear interpolation between
\* sorted[lo] and sorted[hi] otherwise; it does not depend on the input order
\* and lies between sorted[lo] and sorted[hi]; percentile([10,20,30,40], 0.5)
\* is 25 and at 0.95 it is 38.5.  An empty input fails for every p.
C12_Percentile ==
    p_pc = "returned" =>
        /\ p_values = <<>> <=> p_result = <<>>
        /\ Len(p_values) = 1 => p_result = <<p_values[1]>>
        /\ Len(p_values) > 1 =>
              /\ Len(p_result) = 1
              /\ Interpolates(p_result[1], p_values, p_rank)
              /\ Ascending(p_values, Floor(RankIndex(p_values, p_rank))) <= p_result[1]
              /\ p_result[1] <= Ascending(p_values, Ceil(RankIndex(p_values, p_rank)))
              /\ \A other \in Reorderings(p_values) :
                    CalledPercentile(other, p_rank) = p_result
        /\ (p_values = <<1000, 2000, 3000, 4000>> /\ p_rank = 50) => p_result = <<2500>>
        /\ (p_values = <<1000, 2000, 3000, 4000>> /\ p_rank = 95) => p_result = <<3850>>

\* the agent script's percentile has interpolated 38.5 from 40, 10, 30, 20
C12_Witness ==
    /\ p_pc = "returned" /\ p_script = "evaluate_agent_thresholds"
    /\ p_values = <<4000, 1000, 3000, 2000>> /\ p_rank = 95
    /\ p_result = <<3850>>

-----------------------------------------------------------------------------
(* The records of an accepted document *)

\* the document opens with a 'waivers:' root
OpensList(doc) == Significant(doc) # {} /\ IsRoot(doc[SetMin(Significant(doc))])

\* the lines after the root that count, by position
Body(doc) == {i \in Significant(doc) : i > SetMin(Significant(doc))}

\* the lines of the body that start with '- '
DashLines(doc) == {i \in Body(doc) : IsListItem(doc[i])}

\* the j-th dash line of the document
DashLine(doc, j) ==
    CHOOSE d \in DashLines(doc) : Cardinality({e \in DashLines(doc) : e <= d}) = j

\* the dash line d and the field lines that follow it up to the next dash line
LinesOfRecord(doc, d) ==
    {i \in Body(doc) : i >= d /\ \A e \in DashLines(doc) : ~(d < e /\ e <= i)}

\* the 'key: value' text of a line, without the dash of a dash line
KeyValueText(l) ==
    IF IsListItem(l) THEN Strip(SubSeq(Strip(l), 3, Len(Strip(l)))) ELSE Strip(l)

KeyOf(l) == Strip(SplitFirst(KeyValueText(l), COLON)[1])

ValueOf(l) == ParseScalar(SplitFirst(KeyValueText(l), COLON)[2])

\* the record holds exactly the keys of these lines, each with its latest value
HoldsExactly(record, doc, owned) ==
    /\ DOMAIN record = {KeyOf(doc[i]) : i \in owned}
    /\ \A key \in DOMAIN record :
          record[key] = ValueOf(doc[SetMax({i \in owned : KeyOf(doc[i]) = key})])

\* C13: for every line sequence the parser accepts after a 'waivers:' root,
\* the returned list has exactly one record per line starting with '- ', in
\* document order, the last open record included; each record holds exactly
\* the key/value of its dash line and of the field lines that follow it up to
\* the next dash line, a repeated key keeping the later value, so no field is
\* attached to another record than the most recently opened one.
C13_OneRecordPerDashLine ==
    (pst.status = "return" /\ OpensList(lines)) =>
        /\ Len(pst.result) = Cardinality(DashLines(lines))
        /\ \A j \in 1..Len(pst.result) :
              HoldsExactly(pst.result[j], lines, LinesOfRecord(lines, DashLine(lines, j)))

\* two records returned; the first has its metric given twice and keeps the
\* later value, the second was still open at the end of the document
C13_Witness ==
    /\ pst.status = "return" /\ OpensList(lines)
    /\ Len(pst.result) = 2
    /\ Cardinality(LinesOfRecord(lines, DashLine(lines, 1))) = 2
    /\ ValueOf(lines[DashLine(lines, 1)]) = Id("query_p50")
    /\ pst.result[1] = (Id("metric") :> Id("query_p95"))
    /\ DashLine(lines, 2) = Len(lines)

=============================================================================
